---- MODULE Spec2Model ----
(***************************************************************************)
(* A model of the KauDruck analysis session of src/src/kaudruck.py.        *)
(*                                                                         *)
(* Numbers.  The program computes in IEEE doubles; the model computes in   *)
(* fixed point and keeps the three special doubles as tagged values:       *)
(*   - a channel sample is an integer 0..ChannelMax (the image divided by  *)
(*     255, in units of 1/255);                                            *)
(*   - an intensity, a threshold and a colour weight are in units of       *)
(*     1/IntensityUnit (1/510), so ((1-g)+(1-b))/2 is (255-g)+(255-b);     *)
(*   - a force is in centinewton, an area in 1e-5 mm2, a pressure in MPa;  *)
(*   - the area-correction factor is in units of 1/10000.                  *)
(* A float is [k, v]: k = "fin" with the value v, or "nan", "inf", "ninf". *)
(* None and an attribute that was never assigned are tagged values too.    *)
(***************************************************************************)
EXTENDS Integers, Sequences, FiniteSets, TLC

VARIABLES
    img,                            \* self.img, an array of <<r, g, b>> samples
    aoi, aoi_bb,                    \* self.aoi, self.aoi_bb
    aor, aor_bb,                    \* self.aor, self.aor_bb
    threshold,                      \* self.threshold
    area_corr_fact,                 \* self.area_corr_fact
    force_aor,                      \* self.force_aor
    force_maximum_correction,       \* self.force_maximum_correction
    pixel_weight_correction_model,  \* self.pixel_weight_correction_model (a, b, c)
    force_correction_model,         \* self.force_correction_model (p2, p1, p0)
    force_pixelwise,                \* self.force_pixelwise
    pressure_pixelwise,             \* self.pressure_pixelwise
    aor_area, aor_color_weight, aor_color_weight_area_ratio, aor_pressure,
    aoi_area, aoi_color_weight, aoi_color_weight_area_ratio,
    force_aoi, aoi_pressure, force_aoi_corrected, aoi_pressure_corrected,
    last,                           \* the call that just returned or raised
    pixelwise_pos,                  \* position in the call pattern force, pressure,
                                    \* force, pressure (0: the latest call broke it)
    pixelwise_region,               \* the region the force calls of the pattern were
                                    \* given ("" at position 0)
    ncalls                          \* number of calls made on the session

configVars == <<threshold, area_corr_fact, force_aor, force_maximum_correction>>
modelVars  == <<pixel_weight_correction_model, force_correction_model>>
regionVars == <<aoi, aoi_bb, aor, aor_bb>>
pixelVars  == <<force_pixelwise, pressure_pixelwise>>
aorResVars == <<aor_area, aor_color_weight, aor_color_weight_area_ratio, aor_pressure>>
aoiResVars == <<aoi_area, aoi_color_weight, aoi_color_weight_area_ratio,
                force_aoi, aoi_pressure, force_aoi_corrected, aoi_pressure_corrected>>
vars == <<img, regionVars, configVars, modelVars, pixelVars, aorResVars, aoiResVars,
          last, pixelwise_pos, pixelwise_region, ncalls>>

----------------------------------------------------------------------------
(* Bounds of the model.                                                    *)

MaxCalls == 5

----------------------------------------------------------------------------
(* Values.                                                                 *)

ChannelMax == 255
IntensityUnit == 2 * ChannelMax
DefaultThreshold == 153
DefaultAreaCorrFact == 10021
DefaultForceAor == 5000
AreaNumerator == 64516000
AreaDenominator == 64

None  == [k |-> "None", v |-> 0]
Unset == [k |-> "unset", v |-> 0]
Num(n) == [k |-> "fin", v |-> n]
NaN   == [k |-> "nan", v |-> 0]
PInf  == [k |-> "inf", v |-> 0]
NInf  == [k |-> "ninf", v |-> 0]

IsFin(x) == x.k = "fin"
IsNaN(x) == x.k = "nan"

Sign(x) == IF x.k = "fin" THEN (IF x.v > 0 THEN 1 ELSE IF x.v < 0 THEN -1 ELSE 0)
           ELSE IF x.k = "inf" THEN 1 ELSE IF x.k = "ninf" THEN -1 ELSE 0

Signed(s) == IF s > 0 THEN PInf ELSE IF s < 0 THEN NInf ELSE NaN

\* floor division that accepts a negative divisor
IDiv(a, b) == IF b > 0 THEN a \div b ELSE (-a) \div (-b)

\* x < y and x > y on doubles: every comparison with nan is false
FLess(x, y) ==
    IF IsNaN(x) \/ IsNaN(y) THEN FALSE
    ELSE IF IsFin(x) /\ IsFin(y) THEN x.v < y.v
    ELSE IF x.k = y.k THEN FALSE
    ELSE x.k = "ninf" \/ y.k = "inf"

FGreater(x, y) == FLess(y, x)

\* x + y
FAdd(x, y) ==
    IF IsNaN(x) \/ IsNaN(y) THEN NaN
    ELSE IF IsFin(x) /\ IsFin(y) THEN Num(x.v + y.v)
    ELSE IF IsFin(x) THEN y
    ELSE IF IsFin(y) THEN x
    ELSE IF x.k = y.k THEN x ELSE NaN

\* x * y, the product of the two fixed-point values divided by scale
FMul(x, y, scale) ==
    IF IsNaN(x) \/ IsNaN(y) THEN NaN
    ELSE IF IsFin(x) /\ IsFin(y) THEN Num(IDiv(x.v * y.v, scale))
    ELSE Signed(Sign(x) * Sign(y))

\* x / y of numpy doubles, the quotient of the fixed-point values times scale:
\* a division by zero yields inf or nan, it does not raise
FDiv(x, y, scale) ==
    IF IsNaN(x) \/ IsNaN(y) THEN NaN
    ELSE IF IsFin(x) /\ IsFin(y)
         THEN (IF y.v = 0 THEN Signed(Sign(x)) ELSE Num(IDiv(x.v * scale, y.v)))
    ELSE IF IsFin(x) THEN Num(0)
    ELSE IF IsFin(y) THEN Signed(Sign(x) * (IF y.v < 0 THEN -1 ELSE 1))
    ELSE NaN

----------------------------------------------------------------------------
(* Arrays: a 2-D array is a sequence a of rows, each a sequence of w        *)
(* cells; an array of no row keeps its width w, as shape[1] does.          *)

NdArray(rows, w) == [k |-> "ndarray", a |-> rows, w |-> w]
NoArray == [k |-> "None", a |-> <<>>, w |-> 0]
UnsetArray == [k |-> "unset", a |-> <<>>, w |-> 0]
NoBB == [k |-> "unset", a |-> <<>>]

Rows(arr) == Len(arr.a)
Cols(arr) == arr.w

\* an elementwise operation: a new array of the same shape
MapCells(F(_), arr) ==
    NdArray([i \in 1..Rows(arr) |-> [j \in 1..Cols(arr) |-> F(arr.a[i][j])]], Cols(arr))

\* Python's seq[a:b]: a negative index counts from the end, and both ends are
\* clipped to the sequence
SliceIndex(i, n) ==
    LET j == IF i < 0 THEN i + n ELSE i
    IN  IF j < 0 THEN 0 ELSE IF j > n THEN n ELSE j

Slice(s, a, b) == SubSeq(s, SliceIndex(a, Len(s)) + 1, SliceIndex(b, Len(s)))

\* the length of seq[a:b] for a sequence of n elements
SliceLen(a, b, n) ==
    IF SliceIndex(b, n) > SliceIndex(a, n) THEN SliceIndex(b, n) - SliceIndex(a, n) ELSE 0

----------------------------------------------------------------------------
(* Region Extractor.                                                       *)

\* crop_img with the right segment drawn at x + height instead of x + width
crop_img_right_at_height(image, xy, height, width) ==
    LET x == xy[1]
        y == xy[2]
        rows == Slice(image.a, y, y + height)
        img_cropped == [i \in 1..Len(rows) |-> Slice(rows[i], x, x + width)]
        cols == SliceLen(x, x + width, Cols(image))
        bb_left  == << <<x, x>>, <<y, y + height>> >>
        bb_upper == << <<x, x + width>>, <<y, y>> >>
        bb_right == << <<x + height, x + height>>, <<y, y + height>> >>
        bb_lower == << <<x, x + width>>, <<y + height, y + height>> >>
    IN  [img |-> NdArray(img_cropped, cols),
         bb  |-> [k |-> "tuple", a |-> <<bb_left, bb_upper, bb_right, bb_lower>>]]

\* crop_img: img[y:y+height, x:x+width] and the four boundary segments
\* (left, upper, right, lower), each <<x-range, y-range>>
crop_img(image, xy, height, width) ==
    LET x == xy[1]
        y == xy[2]
        rows == Slice(image.a, y, y + height)
        img_cropped == [i \in 1..Len(rows) |-> Slice(rows[i], x, x + width)]
        cols == SliceLen(x, x + width, Cols(image))
        bb_left  == << <<x, x>>, <<y, y + height>> >>
        bb_upper == << <<x, x + width>>, <<y, y>> >>
        bb_right == << <<x + width, x + width>>, <<y, y + height>> >>
        bb_lower == << <<x, x + width>>, <<y + height, y + height>> >>
    IN  [img |-> NdArray(img_cropped, cols),
         bb  |-> [k |-> "tuple", a |-> <<bb_left, bb_upper, bb_right, bb_lower>>]]

----------------------------------------------------------------------------
(* Intensity Computer.                                                     *)

\* ((1 - green) + (1 - blue)) / 2 of one pixel; red is not read
PixelIntensity(p) == Num((ChannelMax - p[2]) + (ChannelMax - p[3]))

\* compute_intensitat: a new array; subscripting None raises TypeError
compute_intensitat(region) ==
    IF region.k # "ndarray" THEN [exc |-> "TypeError", a |-> NoArray]
    ELSE [exc |-> "ok", a |-> MapCells(PixelIntensity, region)]

----------------------------------------------------------------------------
(* Sums as the builtin sum computes them over a 2-D array: sum(arr) adds   *)
(* the rows elementwise, sum(sum(arr)) adds the entries of that row.       *)

\* sum(s) of a sequence of numbers, the int 0 for an empty one
RECURSIVE SeqSum(_)
SeqSum(s) == IF s = <<>> THEN 0 ELSE s[1] + SeqSum(Tail(s))

\* sum(arr): 0 + row 1 + row 2 + ..., a row of Cols(arr) sums; with no row to
\* add it is the start value, the int 0, whatever the width
ColumnSums(arr) ==
    IF Rows(arr) = 0 THEN 0
    ELSE [j \in 1..Cols(arr) |-> SeqSum([i \in 1..Rows(arr) |-> arr.a[i][j]])]

----------------------------------------------------------------------------
(* Aggregate Analyzer.                                                     *)

\* intensity[m] = 0 for m = intensity < threshold
MaskToZero(cell, thr) == IF FLess(cell, thr) THEN Num(0) ELSE cell

\* compute_results: (flaeche, farbgewicht, quotient), or the exception raised.
\* With no row sum(arr) is the int 0 (ColumnSums) and the outer sum(0) raises
\* TypeError, an int not being iterable; with rows of no cell both sums are
\* the int 0 and 0 / 0 raises ZeroDivisionError; in every other case the sums
\* are numpy scalars and 0.0 / 0 is nan.
compute_results(region, thr) ==
    LET it == compute_intensitat(region)
        mask(c) == MaskToZero(c, thr)
        intensity == MapCells(mask, it.a)
        isPositive(c) == IF FGreater(c, Num(0)) THEN 1 ELSE 0
        positive == MapCells(isPositive, intensity)
        valueOf(c) == c.v
        values == MapCells(valueOf, intensity)
        flaeche == Num(SeqSum(ColumnSums(positive)))
        farbgewicht == Num(SeqSum(ColumnSums(values)))
        quotient == FDiv(farbgewicht, flaeche, 1)
        failed(e) == [exc |-> e, flaeche |-> Unset, farbgewicht |-> Unset, quotient |-> Unset]
    IN  IF it.exc # "ok" THEN failed(it.exc)
        ELSE IF Rows(intensity) = 0 THEN failed("TypeError")
        ELSE IF Cols(intensity) = 0 THEN failed("ZeroDivisionError")
        ELSE [exc |-> "ok", flaeche |-> flaeche, farbgewicht |-> farbgewicht,
              quotient |-> quotient]

----------------------------------------------------------------------------
(* Calibration models.                                                     *)

\* the series 1 + z + z^2/2 + ... in thousandths, z in thousandths
RECURSIVE ExpSeries(_, _, _)
ExpSeries(z, term, k) ==
    IF k > 10 THEN 0 ELSE term + ExpSeries(z, IDiv(term * z, k * 1000), k + 1)

ExpMilli(z) == ExpSeries(z, 1000, 1)

\* _model_func: a * exp(b * x) + c, nan for a nan intensity.  x in 1/510,
\* a and c in centinewton, b in thousandths
_model_func(x, a, b, c) ==
    IF ~IsFin(x) THEN NaN
    ELSE Num(IDiv(a * ExpMilli(IDiv(b * x.v, IntensityUnit)), 1000) + c)

\* numpy.polyval of the fitted poly1d: y = 0; for each coefficient y = y*x + p.
\* p2 in 1e-6 per centinewton, p1 in thousandths, p0 in centinewton
force_correction(p, x) ==
    LET y1 == FAdd(FMul(Num(0), x, 1), Num(p[1]))
        y2 == FAdd(FMul(y1, x, 1000), Num(p[2]))
    IN  FAdd(FMul(y2, x, 1000), Num(p[3]))

----------------------------------------------------------------------------
(* Physical Unit Converter.                                                *)

\* compute_area_mm for a numpy pixel count: ((25.4/800)**2 * n) / area_corr_fact
\* in 1e-5 mm2; a zero factor gives inf or nan
compute_area_mm(area_pixel, corr) ==
    FDiv(FMul(Num(AreaNumerator), area_pixel, 1), Num(AreaDenominator * corr), 1)

\* compute_pressure: force / area, centinewton over 1e-5 mm2 in MPa
compute_pressure(force, area) == FDiv(force, area, 1000)

\* compute_kaudruck: (weight_aoi / weight_aor) * force_aor
compute_kaudruck(weight_aoi, weight_aor, force) ==
    FMul(FDiv(weight_aoi, weight_aor, 1000), force, 1000)

----------------------------------------------------------------------------
(* Pixelwise Analyzer.                                                     *)

\* the mask taken with <= instead of <
MaskToNaN_inclusive(cell, thr) == IF FLess(cell, thr) \/ cell = thr THEN NaN ELSE cell

\* intensity[m] = nan for m = intensity < threshold
MaskToNaN(cell, thr) == IF FLess(cell, thr) THEN NaN ELSE cell

\* force_pixelwise[m] = nan for m = force_pixelwise > maximum, when one is set
ClipForce(f, maximum) ==
    IF maximum.k # "None" /\ FGreater(f, maximum) THEN NaN ELSE f

\* the new forces added onto a cached map of the same shape instead of
\* replacing it
ForcePixelwise_accumulating(region, thr, popt, maximum) ==
    LET it == compute_intensitat(region)
        cell(c) == ClipForce(_model_func(MaskToNaN(c, thr), popt[1], popt[2], popt[3]),
                             maximum)
        fresh == MapCells(cell, it.a)
        old == force_pixelwise
        same == /\ old.k = "ndarray"
                /\ Rows(old) = Rows(fresh)
                /\ Cols(old) = Cols(fresh)
    IN  [exc |-> it.exc,
         a |-> IF it.exc # "ok" THEN NoArray
               ELSE IF same
                    THEN NdArray([i \in 1..Rows(fresh) |->
                             [j \in 1..Cols(fresh) |-> FAdd(old.a[i][j], fresh.a[i][j])]],
                                 Cols(fresh))
                    ELSE fresh]

\* the array compute_force_pixelwise stores for the region it works on
ForcePixelwise(region, thr, popt, maximum) ==
    LET it == compute_intensitat(region)
        cell(c) == ClipForce(_model_func(MaskToNaN(c, thr), popt[1], popt[2], popt[3]),
                             maximum)
    IN  [exc |-> it.exc,
         a |-> IF it.exc = "ok" THEN MapCells(cell, it.a) ELSE NoArray]

\* force / area cell by cell, area = compute_area_mm(1) a Python float
PressurePixelwise(force, corr) ==
    LET area == compute_area_mm(Num(1), corr)
        cell(f) == compute_pressure(f, area)
    IN  MapCells(cell, force)

----------------------------------------------------------------------------
(* Inputs of the model: images, crop requests and setter arguments.        *)

\* a 2 x 2 film: intensities 153 (the default threshold exactly), 510, 0, 100
ImageA == NdArray(<< << <<10, 102, 255>>, <<20, 0, 0>> >>,
                     << <<30, 255, 255>>, <<40, 200, 210>> >> >>, 2)

\* a 1 x 2 film: intensities 60 and 400
ImageB == NdArray(<< << <<0, 225, 225>>, <<0, 55, 55>> >> >>, 2)

Images == {ImageA, ImageB}

\* <<x, y, height, width>>: the first row, a rectangle reaching past the
\* right and lower edges, a rectangle below the film, and a negative origin
CropRequests == {<<0, 0, 1, 2>>, <<1, 1, 2, 2>>, <<0, 2, 1, 1>>, <<-1, 0, 1, 2>>}

CtorAoi == {<<0, 0, 1, 2>>}
Thresholds == {0, DefaultThreshold, 400}
CtorThresholds == {DefaultThreshold, 400}
AreaCorrFacts == {10000, 0}
AorForces == {10000, 0}
MaximumForces == {None, Num(300)}

\* the aoi argument of compute_force_pixelwise: left out, or self.aor
ForceArgs == {"None", "aor"}

\* fitted parameters: the calibration tables are read from files outside
\* the repository, so the fits are inputs of the session
PixelWeightFits == {<<20, 3000, -10>>}
ForceCorrectionFits == {<<-20, 1100, 50>>}

----------------------------------------------------------------------------
(* The session.                                                            *)

Call(op, target, args, exc, ret) ==
    [op |-> op, target |-> target, args |-> args, exc |-> exc, ret |-> ret]

\* how far the calls so far end in compute_force_pixelwise,
\* compute_pressure_pixelwise, compute_force_pixelwise, compute_pressure_pixelwise,
\* each returning normally and both force calls on the same region, once op
\* (on target, for a force call) has ended with exc
PatternAfter(pos, region, op, target, exc) ==
    IF exc # "ok" THEN 0
    ELSE IF op = "compute_force_pixelwise"
         THEN (IF pos \in {2, 4} /\ target = region THEN 3 ELSE 1)
    ELSE IF op = "compute_pressure_pixelwise"
         THEN (IF pos = 1 THEN 2 ELSE IF pos = 3 THEN 4 ELSE 0)
    ELSE 0

\* bookkeeping of a finished call
Called(op, target, args, exc, ret) ==
    /\ last' = Call(op, target, args, exc, ret)
    /\ pixelwise_pos' = PatternAfter(pixelwise_pos, pixelwise_region, op, target, exc)
    /\ pixelwise_region' =
           IF PatternAfter(pixelwise_pos, pixelwise_region, op, target, exc) = 0 THEN ""
           ELSE IF op = "compute_force_pixelwise" THEN target
           ELSE pixelwise_region
    /\ ncalls' = ncalls + 1

\* __init__(image_path, aoi, aor, threshold)
Init ==
    /\ img \in Images
    /\ \E a \in {<<>>} \cup CtorAoi :
          IF a = <<>>
          THEN /\ aoi = img
               /\ aoi_bb = NoBB
               /\ last = Call("__init__", "", <<>>, "ok", <<>>)
          ELSE LET c == crop_img(img, <<a[1], a[2]>>, a[3], a[4])
               IN  /\ aoi = c.img
                   /\ aoi_bb = c.bb
                   /\ last = Call("__init__", "aoi", a, "ok", <<>>)
    /\ aor = NoArray
    /\ aor_bb = NoBB
    /\ threshold \in CtorThresholds
    /\ area_corr_fact = DefaultAreaCorrFact
    /\ force_aor = DefaultForceAor
    /\ force_maximum_correction = None
    /\ pixel_weight_correction_model \in PixelWeightFits
    /\ force_correction_model \in ForceCorrectionFits
    /\ force_pixelwise = NoArray
    /\ pressure_pixelwise = UnsetArray
    /\ aor_area = Unset /\ aor_color_weight = Unset
    /\ aor_color_weight_area_ratio = Unset /\ aor_pressure = Unset
    /\ aoi_area = Unset /\ aoi_color_weight = Unset
    /\ aoi_color_weight_area_ratio = Unset
    /\ force_aoi = Unset /\ aoi_pressure = Unset
    /\ force_aoi_corrected = Unset /\ aoi_pressure_corrected = Unset
    /\ pixelwise_pos = 0
    /\ pixelwise_region = ""
    /\ ncalls = 0

set_schwelle(t) ==
    /\ ncalls < MaxCalls
    /\ threshold' = t
    /\ Called("set_schwelle", "", <<t>>, "ok", <<>>)
    /\ UNCHANGED <<img, regionVars, area_corr_fact, force_aor, force_maximum_correction,
                   modelVars, pixelVars, aorResVars, aoiResVars>>

set_area_corr_fact(c) ==
    /\ ncalls < MaxCalls
    /\ area_corr_fact' = c
    /\ Called("set_area_corr_fact", "", <<c>>, "ok", <<>>)
    /\ UNCHANGED <<img, regionVars, threshold, force_aor, force_maximum_correction,
                   modelVars, pixelVars, aorResVars, aoiResVars>>

set_aor_force(f) ==
    /\ ncalls < MaxCalls
    /\ force_aor' = f
    /\ Called("set_aor_force", "", <<f>>, "ok", <<>>)
    /\ UNCHANGED <<img, regionVars, threshold, area_corr_fact, force_maximum_correction,
                   modelVars, pixelVars, aorResVars, aoiResVars>>

set_maximum_force(m) ==
    /\ ncalls < MaxCalls
    /\ force_maximum_correction' = m
    /\ Called("set_maximum_force", "", <<m.v>>, "ok", <<>>)
    /\ UNCHANGED <<img, regionVars, threshold, area_corr_fact, force_aor,
                   modelVars, pixelVars, aorResVars, aoiResVars>>

set_aoi(r) ==
    /\ ncalls < MaxCalls
    /\ LET c == crop_img(img, <<r[1], r[2]>>, r[3], r[4])
       IN  /\ aoi' = c.img
           /\ aoi_bb' = c.bb
    /\ Called("set_aoi", "aoi", r, "ok", <<>>)
    /\ UNCHANGED <<img, aor, aor_bb, configVars, modelVars, pixelVars, aorResVars, aoiResVars>>

set_aor(r) ==
    /\ ncalls < MaxCalls
    /\ LET c == crop_img(img, <<r[1], r[2]>>, r[3], r[4])
       IN  /\ aor' = c.img
           /\ aor_bb' = c.bb
    /\ Called("set_aor", "aor", r, "ok", <<>>)
    /\ UNCHANGED <<img, aoi, aoi_bb, configVars, modelVars, pixelVars, aorResVars, aoiResVars>>

\* compute_results(aoi=self.aoi) and compute_results(aoi=self.aor)
ComputeResults(target) ==
    /\ ncalls < MaxCalls
    /\ LET r == compute_results(IF target = "aoi" THEN aoi ELSE aor, Num(threshold))
       IN  Called("compute_results", target, <<>>, r.exc,
                  IF r.exc = "ok" THEN <<r.flaeche, r.farbgewicht, r.quotient>> ELSE <<>>)
    /\ UNCHANGED <<img, regionVars, configVars, modelVars, pixelVars, aorResVars, aoiResVars>>

\* the region compute_force_pixelwise(aoi=arg) works on: self.aoi when the
\* argument is left out or is None, the argument otherwise
ForceTarget(arg) == IF arg = "aor" /\ aor.k # "None" THEN "aor" ELSE "aoi"

\* compute_force_pixelwise masking the channels of its region in place: a
\* pixel below the threshold has its green and blue samples set to 1
compute_force_pixelwise_in_place(arg) ==
    /\ ncalls < MaxCalls
    /\ LET target == ForceTarget(arg)
           region == IF target = "aor" THEN aor ELSE aoi
           f == ForcePixelwise(region, Num(threshold), pixel_weight_correction_model,
                               force_maximum_correction)
           blank(p) == IF FLess(PixelIntensity(p), Num(threshold))
                       THEN <<p[1], ChannelMax, ChannelMax>> ELSE p
       IN  /\ force_pixelwise' = f.a
           /\ aoi' = IF target = "aoi" THEN MapCells(blank, aoi) ELSE aoi
           /\ aor' = IF target = "aor" THEN MapCells(blank, aor) ELSE aor
           /\ Called("compute_force_pixelwise", target, <<>>, f.exc, <<>>)
    /\ UNCHANGED <<img, aoi_bb, aor_bb, configVars, modelVars, pressure_pixelwise,
                   aorResVars, aoiResVars>>

\* compute_force_pixelwise(aoi=arg): the force map of the region is stored
compute_force_pixelwise(arg) ==
    /\ ncalls < MaxCalls
    /\ LET target == ForceTarget(arg)
           region == IF target = "aor" THEN aor ELSE aoi
           f == ForcePixelwise(region, Num(threshold), pixel_weight_correction_model,
                               force_maximum_correction)
       IN  /\ force_pixelwise' = f.a
           /\ Called("compute_force_pixelwise", target, <<>>, f.exc, <<>>)
    /\ UNCHANGED <<img, regionVars, configVars, modelVars, pressure_pixelwise,
                   aorResVars, aoiResVars>>

\* the force map is computed only when none is cached; compute_area_mm(1)
\* divides Python floats, so a zero factor raises ZeroDivisionError
compute_pressure_pixelwise ==
    /\ ncalls < MaxCalls
    /\ LET f == IF force_pixelwise.k = "None"
                THEN ForcePixelwise(aoi, Num(threshold), pixel_weight_correction_model,
                                    force_maximum_correction).a
                ELSE force_pixelwise
       IN  /\ force_pixelwise' = f
           /\ IF area_corr_fact = 0
              THEN /\ pressure_pixelwise' = pressure_pixelwise
                   /\ Called("compute_pressure_pixelwise", "", <<>>, "ZeroDivisionError", <<>>)
              ELSE /\ pressure_pixelwise' = PressurePixelwise(f, area_corr_fact)
                   /\ Called("compute_pressure_pixelwise", "", <<>>, "ok", <<>>)
    /\ UNCHANGED <<img, regionVars, configVars, modelVars, aorResVars, aoiResVars>>

\* the AOR stage, then the AOI stage; an exception of compute_results ends
\* the call where it is raised
run_analysis ==
    /\ ncalls < MaxCalls
    /\ LET r == compute_results(aor, Num(threshold))
           area_aor_corrected == compute_area_mm(r.flaeche, area_corr_fact)
           s == compute_results(aoi, Num(threshold))
           area_aoi_corrected == compute_area_mm(s.flaeche, area_corr_fact)
           kraft == compute_kaudruck(s.farbgewicht, r.farbgewicht, Num(force_aor))
           korrigiert == force_correction(force_correction_model, kraft)
       IN  IF r.exc # "ok"
           THEN /\ Called("run_analysis", "aor", <<>>, r.exc, <<>>)
                /\ UNCHANGED <<aorResVars, aoiResVars>>
           ELSE /\ aor_area' = r.flaeche
                /\ aor_color_weight' = r.farbgewicht
                /\ aor_color_weight_area_ratio' = r.quotient
                /\ aor_pressure' = compute_pressure(Num(force_aor), area_aor_corrected)
                /\ IF s.exc # "ok"
                   THEN /\ Called("run_analysis", "aoi", <<>>, s.exc, <<>>)
                        /\ UNCHANGED aoiResVars
                   ELSE /\ aoi_area' = s.flaeche
                        /\ aoi_color_weight' = s.farbgewicht
                        /\ aoi_color_weight_area_ratio' = s.quotient
                        /\ force_aoi' = kraft
                        /\ aoi_pressure' = compute_pressure(kraft, area_aoi_corrected)
                        /\ force_aoi_corrected' = korrigiert
                        /\ aoi_pressure_corrected' =
                               compute_pressure(korrigiert, area_aoi_corrected)
                        /\ Called("run_analysis", "", <<>>, "ok", <<>>)
    /\ UNCHANGED <<img, regionVars, configVars, modelVars, pixelVars>>

Next ==
    \/ \E t \in Thresholds : set_schwelle(t)
    \/ \E c \in AreaCorrFacts : set_area_corr_fact(c)
    \/ \E f \in AorForces : set_aor_force(f)
    \/ \E m \in MaximumForces : set_maximum_force(m)
    \/ \E r \in CropRequests : set_aoi(r)
    \/ \E r \in CropRequests : set_aor(r)
    \/ \E target \in {"aoi", "aor"} : ComputeResults(target)
    \/ \E arg \in ForceArgs : compute_force_pixelwise(arg)
    \/ compute_pressure_pixelwise
    \/ run_analysis

Spec == Init /\ [][Next]_vars

----------------------------------------------------------------------------
(* Properties.                                                             *)

SetterOps == {"set_schwelle", "set_area_corr_fact", "set_aor_force", "set_maximum_force"}
CropOps == {"set_aoi", "set_aor"}
AnalysisOps == {"compute_results", "run_analysis", "compute_force_pixelwise",
                "compute_pressure_pixelwise"}

\* the region a call named in last was about
TargetRegion == IF last.target = "aor" THEN aor ELSE aoi
TargetBB == IF last.target = "aor" THEN aor_bb ELSE aoi_bb

\* a crop was made by the latest call (a setter, or the constructor given aoi)
Cropped == last.op \in CropOps \/ (last.op = "__init__" /\ last.target = "aoi")

\* the region has at least one pixel
HasPixels(region) == Rows(region) > 0 /\ Cols(region) > 0

\* every cell of the region has an intensity below thr
AllBelow(region, thr) ==
    \A i \in 1..Rows(region) : \A j \in 1..Cols(region) :
        PixelIntensity(region.a[i][j]).v < thr

\* some cell of the region has an intensity at or above thr
SomeAtOrAbove(region, thr) ==
    \E i \in 1..Rows(region) : \E j \in 1..Cols(region) :
        PixelIntensity(region.a[i][j]).v >= thr

\* C1: once a setter has returned, no force map is cached (the setter cleared
\* the map computed under the configuration it replaced).
C1_SetterClearsForceMap ==
    last.op \in SetterOps => force_pixelwise.k = "None"

\* C2: compute_results on a region of pixels that are all below the
\* threshold ends in EmptyRegionError; it does not return a ratio that is
\* nan or infinite.
C2_EmptyRegionRaises ==
    (/\ last.op = "compute_results"
     /\ TargetRegion.k = "ndarray"
     /\ HasPixels(TargetRegion)
     /\ AllBelow(TargetRegion, threshold))
    => /\ last.exc = "EmptyRegionError"
       /\ last.ret = <<>>

\* C3: run_analysis on a session whose AOR is still None fails with
\* MissingRegionError at the AOR stage, and no aggregate result is stored.
C3_MissingAorRaises ==
    (last.op = "run_analysis" /\ aor.k = "None")
    => /\ last.exc = "MissingRegionError"
       /\ last.target = "aor"
       /\ \A v \in {aor_area, aor_color_weight, aor_color_weight_area_ratio,
                    aor_pressure, aoi_area, aoi_color_weight,
                    aoi_color_weight_area_ratio, force_aoi, aoi_pressure,
                    force_aoi_corrected, aoi_pressure_corrected} : v = Unset

\* C4: a crop whose origin plus height or width exceeds the image fails with
\* RegionBoundsError, and a crop that succeeds has exactly the requested
\* height and width.
C4_CropChecksBounds ==
    Cropped =>
        LET x == last.args[1]
            y == last.args[2]
            height == last.args[3]
            width == last.args[4]
        IN  /\ (y + height > Rows(img) \/ x + width > Cols(img))
                   => last.exc = "RegionBoundsError"
            /\ last.exc = "ok"
                   => /\ Rows(TargetRegion) = height
                      /\ Cols(TargetRegion) = width
                      /\ \A i \in 1..Rows(TargetRegion) : Len(TargetRegion.a[i]) = width

\* C5: after compute_force_pixelwise the force map has the shape of the
\* intensity field of the region the call worked on (its aoi argument,
\* self.aoi when none is given); a cell is missing when its intensity is
\* below the threshold or when a maximum force is set and the model's force
\* exceeds it; every other cell, one at the threshold included, holds the
\* model's force for its intensity.
C5_ForceMapCells ==
    last.op = "compute_force_pixelwise" =>
        LET map == force_pixelwise
            region == TargetRegion
            popt == pixel_weight_correction_model
        IN  /\ map.k = "ndarray"
            /\ Rows(map) = Rows(region)
            /\ Cols(map) = Cols(region)
            /\ \A i \in 1..Rows(region) :
                 /\ Len(map.a[i]) = Len(region.a[i])
                 /\ \A j \in 1..Cols(region) :
                      LET x == PixelIntensity(region.a[i][j])
                          f == _model_func(x, popt[1], popt[2], popt[3])
                      IN  IF \/ x.v < threshold
                             \/ /\ force_maximum_correction # None
                                /\ f.v > force_maximum_correction.v
                          THEN map.a[i][j] = NaN
                          ELSE map.a[i][j] = f /\ IsFin(f)

\* a force map with a cell at the threshold that holds a force, a cell
\* masked by the threshold and a cell masked by the maximum force
C5_Witness ==
    /\ last.op = "compute_force_pixelwise"
    /\ force_maximum_correction # None
    /\ \E i \in 1..Rows(TargetRegion) : \E j \in 1..Cols(TargetRegion) :
          /\ PixelIntensity(TargetRegion.a[i][j]).v = threshold
          /\ IsFin(force_pixelwise.a[i][j])
    /\ \E i \in 1..Rows(TargetRegion) : \E j \in 1..Cols(TargetRegion) :
          /\ PixelIntensity(TargetRegion.a[i][j]).v < threshold
          /\ force_pixelwise.a[i][j] = NaN
    /\ \E i \in 1..Rows(TargetRegion) : \E j \in 1..Cols(TargetRegion) :
          /\ PixelIntensity(TargetRegion.a[i][j]).v > threshold
          /\ force_pixelwise.a[i][j] = NaN

\* the corner of a boundary segment: its k-th x with its k-th y
Corner(segment, k) == <<segment[1][k], segment[2][k]>>

\* C6: the boundary polygon of a crop has 4 segments, left, top, right,
\* bottom, whose corners are (x, y), (x+width, y), (x, y+height) and
\* (x+width, y+height), so that origin, height and width are read back
\* from it.
C6_BoundaryPolygon ==
    Cropped =>
        LET bb == TargetBB.a
            x == last.args[1]
            y == last.args[2]
            height == last.args[3]
            width == last.args[4]
        IN  /\ Len(bb) = 4
            /\ Corner(bb[1], 1) = <<x, y>>          /\ Corner(bb[1], 2) = <<x, y + height>>
            /\ Corner(bb[2], 1) = <<x, y>>          /\ Corner(bb[2], 2) = <<x + width, y>>
            /\ Corner(bb[3], 1) = <<x + width, y>>  /\ Corner(bb[3], 2) = <<x + width, y + height>>
            /\ Corner(bb[4], 1) = <<x, y + height>> /\ Corner(bb[4], 2) = <<x + width, y + height>>
            /\ bb[1][2][2] - bb[1][2][1] = height
            /\ bb[2][1][2] - bb[2][1][1] = width

\* a crop of unequal height and width away from the origin
C6_Witness ==
    /\ last.op = "set_aor"
    /\ last.args[3] # last.args[4]
    /\ last.args[1] # last.args[2]
    /\ aor_bb.k = "tuple"

\* C7: a second pixelwise analysis (compute_force_pixelwise, then
\* compute_pressure_pixelwise) directly after a first one on the same region
\* stores the same force map and the same pressure map, cell for cell.
C7_PixelwiseIdempotent ==
    [][/\ (pixelwise_pos = 2 /\ pixelwise_pos' = 3)
            => force_pixelwise' = force_pixelwise
       /\ (pixelwise_pos = 3 /\ pixelwise_pos' = 4)
            => /\ force_pixelwise' = force_pixelwise
               /\ pressure_pixelwise' = pressure_pixelwise]_vars

\* two analyses in a row over a map with missing cells and with forces
C7_Witness ==
    /\ pixelwise_pos = 4
    /\ \E i \in 1..Rows(force_pixelwise) : \E j \in 1..Cols(force_pixelwise) :
          force_pixelwise.a[i][j] = NaN
    /\ \E i \in 1..Rows(force_pixelwise) : \E j \in 1..Cols(force_pixelwise) :
          /\ IsFin(force_pixelwise.a[i][j])
          /\ IsFin(pressure_pixelwise.a[i][j])

\* C8: the threshold, the area-correction factor and the reference force
\* are strictly positive in every state of the session.
C8_PositiveConfiguration ==
    threshold > 0 /\ area_corr_fact > 0 /\ force_aor > 0

\* C9: run_analysis with an AOR that has a pixel at or above the threshold
\* and an AOI whose pixels are all below it stores the AOR results, then
\* raises EmptyRegionError in the AOI stage, and stores no AOI force,
\* corrected force or pressure.
C9_EmptyAoiStopsAnalysis ==
    (/\ last.op = "run_analysis"
     /\ aor.k = "ndarray"
     /\ SomeAtOrAbove(aor, threshold)
     /\ HasPixels(aoi)
     /\ AllBelow(aoi, threshold))
    => /\ last.exc = "EmptyRegionError"
       /\ last.target = "aoi"
       /\ aor_area # Unset /\ aor_color_weight # Unset
       /\ aor_color_weight_area_ratio # Unset /\ aor_pressure # Unset
       /\ force_aoi = Unset /\ force_aoi_corrected = Unset
       /\ aoi_pressure = Unset /\ aoi_pressure_corrected = Unset

\* C10: an analysis call changes neither the image, the crops nor the
\* configuration; run_analysis leaves the pixelwise maps as they are, and the
\* pixelwise calls leave the aggregate results as they are.
C10_AnalysisFrame ==
    [][(ncalls' = ncalls + 1 /\ last'.op \in AnalysisOps)
        => /\ UNCHANGED <<img, aoi, aor, configVars>>
           /\ last'.op = "run_analysis" => UNCHANGED pixelVars
           /\ last'.op \in {"compute_force_pixelwise", "compute_pressure_pixelwise"}
                  => UNCHANGED <<aorResVars, aoiResVars>>]_vars

\* a completed run_analysis on a session that holds both pixelwise maps
C10_Witness ==
    /\ last.op = "run_analysis"
    /\ last.exc = "ok"
    /\ force_pixelwise.k = "ndarray"
    /\ pressure_pixelwise.k = "ndarray"
    /\ IsFin(aoi_pressure_corrected)

====
